---- MODULE Spec2Model ----
(***************************************************************************)
(* State-machine model of pyrameter's optimizer (FMin, optimizer.py) and   *)
(* of its finite domains (DiscreteDomain / ExhaustiveDomain, domain.py).   *)
(*                                                                         *)
(* Python values are encoded as tuples:                                    *)
(*   None        <<>>                                                      *)
(*   a value v   <<v>>            (objective, results, errmsg, max_evals)  *)
(*   an int id   <<"int", n>>                                              *)
(*   a str id    <<"str", n>>     (the decimal string of n)                *)
(* List positions are TLA+ positions (1-based); a Python index i is the    *)
(* position i + 1.                                                         *)
(***************************************************************************)
EXTENDS Integers, Sequences, FiniteSets, TLC

\* ---------------------------------------------------------------- bounds
MaxSpaces == 2
MaxTrials == 2
MaxSubs == 2
MaxBatch == 2
MaxLen == 3
MaxSortSpaces == 3
MaxMaxEvals == 0

\* ------------------------------------------------------- Python encodings
None == <<>>
Some(v) == <<v>>
IntId(n) == <<"int", n>>
StrId(n) == <<"str", n>>

\* str(x): an int becomes its decimal string, a string stays itself.
str(x) == <<"str", x[2]>>

Min(S) == CHOOSE x \in S : \A y \in S : x <= y

Range(f) == {f[i] : i \in DOMAIN f}

\* ------------------------------------------------------ trial and space
\* TrialStatus values; status.value == 3 is terminal success.
RUNNING == 2
DONE == 3
ERROR == 4

\* A Trial as a SearchSpace creates it.
NewTrial(n) ==
    [id |-> IntId(n), objective |-> None, results |-> None, errmsg |-> None,
     status |-> RUNNING, submissions |-> 0]

\* trial.hyperparameters: the mapping the selection method produced for the
\* trial; opaque, one token per trial.
hyperparameters(trial) == <<"hp", trial.id[2]>>

\* Complexity levels of a SearchSpace: 1 is "every member domain is fixed".
ComplexityLevels == {1, 2}
\* Opaque uncertainty levels of a SearchSpace.
UncertaintyLevels == {1, 2}
\* max_evals given to the constructor: None (the default) or a number.
MaxEvalsChoices == {None} \cup {Some(m) : m \in 0..MaxMaxEvals}

NewSpace(n, c) ==
    [id |-> IntId(n), complexity |-> c, rank |-> 1, done |-> FALSE,
     trials |-> <<>>]

VARIABLES
    searchspaces,   \* FMin.searchspaces: the list of SearchSpace objects
    trials,         \* FMin.trials: trial id -> the trial object it references
    did_sort,       \* FMin._did_sort
    max_evals,      \* FMin.max_evals
    trial_counter,  \* the next Trial id
    ret,            \* the last call: its name, arguments and outcome
    dkind,          \* the domain's class: "discrete" or "exhaustive"
    domain,         \* Domain.domain: the list of values
    idx,            \* ExhaustiveDomain.idx: the cursor (a Python index)
    calls,          \* the generate() calls made on the domain, in order
    attrs,          \* the domain object's private attributes, by mangled name
    threads         \* the local state of each worker's call in progress

vars == <<searchspaces, trials, did_sort, max_evals, trial_counter, ret,
          dkind, domain, idx, calls, attrs, threads>>

fminVars == <<searchspaces, trials, did_sort, max_evals, trial_counter, ret>>
domainVars == <<dkind, domain, idx, calls, attrs>>

\* A call and its outcome: op is the method, ssid, tid and args are its
\* arguments (<<>> where it has none), exc is the exception it raised ("" when
\* it returned) and val is what it returned. A call that raised a lookup
\* error out of register_result leaves only the exception.
Ret(op, exc, ssid, tid, args, val) ==
    [op |-> op, exc |-> exc, ssid |-> ssid, tid |-> tid, args |-> args,
     val |-> val]

NoCall == Ret("init", "", None, None, None, None)

NoDomain ==
    /\ dkind = "none"
    /\ domain = <<>>
    /\ idx = 0
    /\ calls = <<>>
    /\ attrs = <<>>

\* No call is in progress: every call runs from its first line to its last
\* without another one in between.
NoThreads == threads = <<>>

\* FMin.__init__: one fresh SearchSpace per split of the specification, an
\* empty trial index, no ranked ordering yet.
FMinInit ==
    /\ \E n \in 0..MaxSpaces :
         \E c \in [1..n -> ComplexityLevels] :
            searchspaces = [i \in 1..n |-> NewSpace(i - 1, c[i])]
    /\ trials = <<>>
    /\ did_sort = FALSE
    /\ max_evals \in MaxEvalsChoices
    /\ trial_counter = 0
    /\ ret = NoCall

Init == FMinInit /\ NoDomain /\ NoThreads

\* ------------------------------------------------------------- generate
\* SearchSpace.__call__: a new Trial is appended to the space's trials.
Draw(spaces, pos, n) ==
    [spaces EXCEPT ![pos].trials = Append(@, NewTrial(n))]

\* A scan that stops where it starts, done or not.
SkipDone_NoScan(spaces, i) == i

\* The scan `while self.searchspaces[idx].done and idx < len(...)`: the
\* result is the first index at or after i whose space is not done, or
\* len(spaces) when `self.searchspaces[idx]` raised IndexError.
RECURSIVE SkipDone(_, _)
SkipDone(spaces, i) ==
    IF i >= Len(spaces) THEN Len(spaces)
    ELSE IF spaces[i + 1].done THEN SkipDone(spaces, i + 1)
    ELSE i

\* A generate() that returns the trial without recording it.
IndexTrial_Skip(index, ssid, trial) == index

\* Lines 124-125: `self.trials[trial.id] = trial`; the index holds a
\* reference to the trial, written here as <<id of its space, its id>>.
IndexTrial(index, ssid, trial) == (trial.id :> <<ssid, trial.id>>) @@ index

\* FMin.trial_count
trial_count == Cardinality(DOMAIN trials)

\* generate() with ssid None.
generate_any ==
    IF Len(searchspaces) = 0
    THEN \* np.random.choice on an empty array
         /\ ret' = Ret("generate", "ValueError", None, None, None, None)
         /\ UNCHANGED <<searchspaces, trials, did_sort, max_evals, trial_counter>>
    ELSE \E pick \in 0..(Len(searchspaces) - 1) :
           LET i == SkipDone(searchspaces, pick) IN
           IF i >= Len(searchspaces)
           THEN \* the loop condition indexes past the end of the list
                /\ ret' = Ret("generate", "IndexError", None, None, <<pick>>, None)
                /\ UNCHANGED <<searchspaces, trials, did_sort, max_evals, trial_counter>>
           ELSE /\ trial_counter < MaxTrials
                /\ LET trial == NewTrial(trial_counter) IN
                   /\ searchspaces' = Draw(searchspaces, i + 1, trial_counter)
                   /\ trials' = IndexTrial(trials, searchspaces[i + 1].id, trial)
                   /\ ret' = Ret("generate", "", None, None, <<pick>>,
                                 <<searchspaces[i + 1].id, trial.id>>)
                /\ trial_counter' = trial_counter + 1
                /\ UNCHANGED <<did_sort, max_evals>>

\* The ids a caller may pass. A SearchSpace id reaches register_result as
\* a string (it is compared with str(ss.id)) and generate as the id itself;
\* the largest number of each set is the id of no space or trial.
SsidArgs == {StrId(n) : n \in 0..MaxSpaces} \cup {IntId(0)}
TidArgs == {IntId(n) : n \in 0..MaxTrials} \cup {StrId(0)}

\* generate(ssid) with an ssid given.
generate_ssid(ssid) ==
    LET found == {i \in 1..Len(searchspaces) : searchspaces[i].id = ssid} IN
    /\ IF found = {}
       THEN \* [...][0] on an empty list
            ret' = Ret("generate", "IndexError", Some(ssid), None, None, None)
       ELSE \* `ss` is the comprehension's variable: not bound in this scope
            ret' = Ret("generate", "NameError", Some(ssid), None, None, None)
    /\ UNCHANGED <<searchspaces, trials, did_sort, max_evals, trial_counter>>

\* ------------------------------------------------------ register_result
\* What a caller reports: <<objective, results, errmsg>> of a single call,
\* and the <<objective, results>> elements and the errmsg of a batch.
CallArgs == {<<Some(1), Some("a"), None>>, <<Some(2), Some("b"), None>>,
             <<None, None, Some("boom")>>}
ResultArgs == {<<Some(1), Some("a")>>, <<Some(2), Some("b")>>}
ErrArgs == {None, Some("boom")}

\* Trial's setters for objective, results and errmsg: a reported error makes
\* the trial ERROR, a reported objective makes it DONE.
SetResult(trial, objective, results, errmsg) ==
    [trial EXCEPT !.objective = objective,
                  !.results = results,
                  !.errmsg = errmsg,
                  !.status = IF errmsg # None THEN ERROR
                             ELSE IF objective # None THEN DONE
                             ELSE @]

\* n_done: the trials of the space whose status value is 3.
n_done(searchspace) ==
    Cardinality({k \in 1..Len(searchspace.trials) :
                    searchspace.trials[k].status = 3})

\* The comparison off by one: `n_done >= self.max_evals`.
ExceedsMaxEvals_AtLeast(n, m) == n >= m

\* `if n_done > self.max_evals` for a numeric max_evals.
ExceedsMaxEvals(n, m) == n > m

\* The positions of the spaces `[ss for ss in self.searchspaces if
\* str(ss.id) == ssid]`.
FindSpaces(spaces, ssid) ==
    {i \in 1..Len(spaces) : str(spaces[i].id) = ssid}

\* The positions of the trials `[t for t in searchspace.trials if
\* str(t.id) == str(trial_id)]`.
FindTrials(searchspace, trial_id) ==
    {k \in 1..Len(searchspace.trials) :
        str(searchspace.trials[k].id) = str(trial_id)}

\* A registration that does not count.
Submit_Lost(trial) == trial

\* trial.submissions += 1
Submit(trial) == [trial EXCEPT !.submissions = @ + 1]

\* The body run for one trial id (lines 163-176, and 180-193 per element of
\* a batch) on the state st = [spaces, index, exc, sub, hp], against the
\* space at position pos. It stops at the first exception.
register_one(st, pos, trial_id, objective, results, errmsg, me) ==
    LET searchspace == st.spaces[pos]
        found == FindTrials(searchspace, trial_id)
    IN  IF st.exc # "" THEN st
        ELSE IF found = {} THEN [st EXCEPT !.exc = "IndexError"]
        ELSE
          LET k == Min(found)
              trial == Submit(SetResult(searchspace.trials[k], objective,
                                        results, errmsg))
              index == IF trial.id \in DOMAIN st.index THEN st.index
                       ELSE (trial.id :> <<searchspace.id, trial.id>>) @@ st.index
              written == [st.spaces EXCEPT ![pos].trials[k] = trial]
              st1 == [st EXCEPT !.spaces = written, !.index = index,
                                !.sub = Some(trial.submissions),
                                !.hp = Append(@, hyperparameters(trial))]
          IN  IF searchspace.complexity = 1
              THEN IF me = None
                   THEN \* int > None
                        [st1 EXCEPT !.exc = "TypeError"]
                   ELSE IF ExceedsMaxEvals(n_done(written[pos]), me[1])
                        THEN [st1 EXCEPT !.spaces[pos].done = TRUE]
                        ELSE st1
              ELSE st1

\* The loop `for i, tid in enumerate(trial_id)` from element i on.
RECURSIVE register_loop(_, _, _, _, _, _, _)
register_loop(st, pos, ids, args, errmsg, me, i) ==
    IF i > Len(ids) THEN st
    ELSE register_loop(
            register_one(st, pos, ids[i], args[i][1], args[i][2], errmsg, me),
            pos, ids, args, errmsg, me, i + 1)

StartState == [spaces |-> searchspaces, index |-> trials, exc |-> "",
               sub |-> None, hp |-> <<>>]

\* No trial is submitted more often than the model counts.
WithinSubs(spaces) ==
    \A i \in 1..Len(spaces) : \A k \in 1..Len(spaces[i].trials) :
        spaces[i].trials[k].submissions <= MaxSubs

\* What a call leaves behind: the state st reached the moment it returned or
\* raised.
Finish(st, op, ssid, tid, args, val) ==
    /\ WithinSubs(st.spaces)
    /\ searchspaces' = st.spaces
    /\ trials' = st.index
    /\ ret' = IF st.exc = "IndexError"
              THEN Ret(op, st.exc, None, None, None, None)
              ELSE Ret(op, st.exc, Some(ssid), Some(tid), args,
                       IF st.exc = "" THEN val ELSE None)
    /\ UNCHANGED <<did_sort, max_evals, trial_counter>>

\* register_result with a single trial id.
register_result_single(ssid, trial_id, objective, results, errmsg) ==
    LET found == FindSpaces(searchspaces, ssid) IN
    IF found = {}
    THEN Finish([StartState EXCEPT !.exc = "IndexError"], "register_result",
                ssid, trial_id, <<objective, results, errmsg>>, None)
    ELSE LET st == register_one(StartState, Min(found), trial_id, objective,
                                results, errmsg, max_evals)
         IN  Finish(st, "register_result", ssid, trial_id,
                    <<objective, results, errmsg>>,
                    IF st.exc = "" THEN <<st.sub[1], st.hp[1]>> ELSE None)

\* register_result with a list of trial ids and parallel lists of
\* objectives and results.
register_result_batch(ssid, ids, args, errmsg) ==
    LET found == FindSpaces(searchspaces, ssid) IN
    IF found = {}
    THEN Finish([StartState EXCEPT !.exc = "IndexError"], "register_batch",
                ssid, ids, <<args, errmsg>>, None)
    ELSE LET st == register_loop(StartState, Min(found), ids, args, errmsg,
                                 max_evals, 1)
             \* `trial` is unbound at the return when the list was empty
             end == IF st.exc = "" /\ Len(ids) = 0
                    THEN [st EXCEPT !.exc = "UnboundLocalError"] ELSE st
         IN  Finish(end, "register_batch", ssid, ids, <<args, errmsg>>,
                    IF end.exc = "" THEN <<end.sub[1], end.hp>> ELSE None)

BatchTids == {IntId(n) : n \in 0..MaxTrials}
BatchIds == UNION {[1..n -> BatchTids] : n \in 0..MaxBatch}

\* ----------------------------------------------------------- sort_spaces
\* np.argsort(values): a permutation p of the indices 0..n-1, as a list,
\* with values[p[0]] <= values[p[1]] <= ...; the order of equal values is
\* not fixed by the default sort kind.
ArgSorts(values) ==
    LET n == Len(values) IN
    {p \in [1..n -> 0..(n - 1)] :
        /\ \A i, j \in 1..n : i # j => p[i] # p[j]
        /\ \A i \in 1..(n - 1) : values[p[i] + 1] <= values[p[i + 1] + 1]}

\* `self.searchspaces[i].rank *= idx[i]` for every i.
MultiplyRanks(spaces, p) ==
    [i \in 1..Len(spaces) |-> [spaces[i] EXCEPT !.rank = @ * p[i]]]

\* list.sort(key=lambda x: x.rank): stable, ascending by rank.
SortByRank(spaces) ==
    LET n == Len(spaces)
        before(i, j) == \/ spaces[i].rank < spaces[j].rank
                        \/ spaces[i].rank = spaces[j].rank /\ i < j
        place(i) == 1 + Cardinality({j \in 1..n : before(j, i)})
    IN  [k \in 1..n |-> spaces[CHOOSE i \in 1..n : place(i) = k]]

sort_spaces(use_complexity, use_uncertainty) ==
    LET n == Len(searchspaces)
        reset == [i \in 1..n |-> [searchspaces[i] EXCEPT !.rank = 1]]
        complexities == [i \in 1..n |-> searchspaces[i].complexity]
    IN
    \E p \in IF use_complexity THEN ArgSorts(complexities) ELSE {<<>>} :
    \E q \in IF use_uncertainty
              THEN UNION {ArgSorts(u) : u \in [1..n -> UncertaintyLevels]}
              ELSE {<<>>} :
        LET byc == IF use_complexity THEN MultiplyRanks(reset, p) ELSE reset
            byu == IF use_uncertainty THEN MultiplyRanks(byc, q) ELSE byc
        IN
        /\ searchspaces' = IF use_complexity \/ use_uncertainty
                           THEN SortByRank(byu) ELSE byu
        /\ did_sort' = (did_sort \/ use_complexity \/ use_uncertainty)
        /\ ret' = Ret("sort_spaces", "", None, None,
                      <<use_complexity, use_uncertainty>>, None)
        /\ UNCHANGED <<trials, max_evals, trial_counter>>

\* ---------------------------------------------------------------- optimum
\* SearchSpace.optimum(): the trial (its position) with the lowest objective
\* among the terminal-success trials, the first of them on a tie, or None
\* when the space has none.
SpaceOptimum(searchspace) ==
    LET completed == {k \in 1..Len(searchspace.trials) :
                         searchspace.trials[k].status = DONE}
    IN  IF completed = {} THEN None
        ELSE Some(searchspace.trials[
                 Min({k \in completed :
                        \A l \in completed :
                           searchspace.trials[k].objective[1]
                              <= searchspace.trials[l].objective[1]})])

\* The loop of FMin.optimum from space i on: best is None or <<trial>>.
\* `candidate.objective` of a candidate that is None raises AttributeError;
\* it is evaluated whenever best is not None.
RECURSIVE optimum_loop(_, _, _)
optimum_loop(spaces, i, best) ==
    IF i > Len(spaces) THEN [exc |-> "", best |-> best]
    ELSE LET candidate == SpaceOptimum(spaces[i]) IN
         IF best = None THEN optimum_loop(spaces, i + 1, candidate)
         ELSE IF candidate = None
              THEN [exc |-> "AttributeError", best |-> None]
              ELSE IF candidate[1].objective[1] < best[1].objective[1]
                   THEN optimum_loop(spaces, i + 1, candidate)
                   ELSE optimum_loop(spaces, i + 1, best)

\* FMin.optimum()
optimum ==
    LET end == optimum_loop(searchspaces, 1, None) IN
    /\ ret' = Ret("optimum", end.exc, None, None, None,
                  IF end.best = None THEN None ELSE Some(end.best[1].id))
    /\ UNCHANGED <<searchspaces, trials, did_sort, max_evals, trial_counter>>

\* ------------------------------------------------------- specifications
\* The calls a client makes, each with the arguments it may pass. An ssid
\* that names no space comes with no further arguments: the handler raises
\* before it reads them.
CallGenerate == generate_any /\ UNCHANGED <<domainVars, threads>>

CallGenerateSsid ==
    /\ \E ssid \in SsidArgs : generate_ssid(ssid)
    /\ UNCHANGED <<domainVars, threads>>

FirstOf(S) == {CHOOSE x \in S : TRUE}

CallRegisterResult ==
    /\ \E ssid \in SsidArgs :
       \E trial_id \in IF FindSpaces(searchspaces, ssid) = {}
                       THEN FirstOf(TidArgs) ELSE TidArgs :
       \E a \in IF FindSpaces(searchspaces, ssid) = {}
                THEN FirstOf(CallArgs) ELSE CallArgs :
          register_result_single(ssid, trial_id, a[1], a[2], a[3])
    /\ UNCHANGED <<domainVars, threads>>

CallRegisterBatch ==
    /\ \E ssid \in SsidArgs, ids \in BatchIds, e \in ErrArgs :
          /\ FindSpaces(searchspaces, ssid) = {} => ids = <<>> /\ e = None
          /\ \E args \in [1..Len(ids) -> ResultArgs] :
                register_result_batch(ssid, ids, args, e)
    /\ UNCHANGED <<domainVars, threads>>

CallSortSpaces ==
    /\ \E use_complexity, use_uncertainty \in BOOLEAN :
          sort_spaces(use_complexity, use_uncertainty)
    /\ UNCHANGED <<domainVars, threads>>

\* The optimizer's trial lifecycle: generate and register_result.
Next ==
    \/ CallGenerate
    \/ CallGenerateSsid
    \/ CallRegisterResult

Spec == Init /\ [][Next]_vars

CallOptimum == optimum /\ UNCHANGED <<domainVars, threads>>

\* The lifecycle with the optimum read at any point.
NextOptimum ==
    \/ CallGenerate
    \/ CallRegisterResult
    \/ CallOptimum

SpecOptimum == Init /\ [][NextOptimum]_vars

\* The lifecycle with batch registration, on a fixed space (complexity 1)
\* followed by an open one.
BatchInit ==
    /\ searchspaces = <<NewSpace(0, 1), NewSpace(1, 2)>>
    /\ trials = <<>>
    /\ did_sort = FALSE
    /\ max_evals \in MaxEvalsChoices
    /\ trial_counter = 0
    /\ ret = NoCall
    /\ NoDomain
    /\ NoThreads

NextBatch ==
    \/ CallGenerate
    \/ CallRegisterResult
    \/ CallRegisterBatch

SpecBatch == BatchInit /\ [][NextBatch]_vars

\* The lifecycle with ranking, on the same two spaces.
NextIndex ==
    \/ CallGenerate
    \/ CallGenerateSsid
    \/ CallRegisterResult
    \/ CallSortSpaces

SpecIndex == BatchInit /\ [][NextIndex]_vars

\* Ranking: sort_spaces on lists of up to MaxSortSpaces spaces, with as
\* many complexity levels as spaces.
SortInit ==
    /\ \E n \in 0..MaxSortSpaces :
         \E c \in [1..n -> 1..MaxSortSpaces] :
            searchspaces = [i \in 1..n |-> NewSpace(i - 1, c[i])]
    /\ trials = <<>>
    /\ did_sort = FALSE
    /\ max_evals \in MaxEvalsChoices
    /\ trial_counter = 0
    /\ ret = NoCall
    /\ NoDomain
    /\ NoThreads

NextSort ==
    \/ CallSortSpaces

SpecSort == SortInit /\ [][NextSort]_vars

\* ---------------------------------------------------------------- domains
Values == {"a", "b"}

MaxCalls == MaxLen + 1

\* One generate() call: the index argument, the cursor it found, the
\* position of the value it selected and what it returned.
Call(index, cursor, drew, out) ==
    [index |-> index, cursor |-> cursor, drew |-> drew, out |-> out]

\* A cursor that skips a position, and one that does not wrap.
Advance_Skip(i, n) == (i + 2) % n
Advance_NoWrap(i, n) == i + 1

\* `self.idx = (self.idx + 1) % len(self.domain)`
Advance(i, n) == (i + 1) % n

\* ExhaustiveDomain.generate(index)
ExhaustiveGenerate(index) ==
    /\ dkind = "exhaustive"
    /\ Len(calls) < MaxCalls
    /\ LET val == domain[idx + 1]
           next == Advance(idx, Len(domain))
       IN  /\ idx' = next
           /\ calls' = Append(calls, Call(index, idx, idx,
                                          IF index THEN IntId(next) ELSE <<"val", val>>))
    /\ UNCHANGED <<dkind, domain, attrs>>

\* randint(0, len(domain)).rvs(): low inclusive, high exclusive.
Rvs(n) == 0..(n - 1)

\* DiscreteDomain.generate(index)
DiscreteGenerate(index) ==
    /\ dkind = "discrete"
    /\ Len(calls) < MaxCalls
    /\ \E i \in Rvs(Len(domain)) :
          calls' = Append(calls, Call(index, idx, i,
                                      IF index THEN IntId(i) ELSE <<"val", domain[i + 1]>>))
    /\ UNCHANGED <<dkind, domain, idx, attrs>>

\* Name mangling: inside the body of class cls the name `__name` stands
\* for the attribute `_cls__name`.
Mangle(cls, name) == <<"_", cls, name>>

\* Domain.__init__: `self.__complexity = None`, written in class Domain.
DomainAttrs == (Mangle("Domain", "__complexity") :> None)

\* A Discrete or Exhaustive domain over a non-empty list (a value that is
\* no list is wrapped into a one-element list), and an optimizer that is
\* not used.
DomainInit ==
    /\ dkind \in {"discrete", "exhaustive"}
    /\ domain \in UNION {[1..n -> Values] : n \in 1..MaxLen}
    /\ idx = 0
    /\ calls = <<>>
    /\ attrs = DomainAttrs
    /\ NoThreads
    /\ searchspaces = <<>>
    /\ trials = <<>>
    /\ did_sort = FALSE
    /\ max_evals = None
    /\ trial_counter = 0
    /\ ret = NoCall

CallExhaustiveGenerate ==
    /\ \E index \in BOOLEAN : ExhaustiveGenerate(index)
    /\ UNCHANGED <<fminVars, threads>>

CallDiscreteGenerate ==
    /\ \E index \in BOOLEAN : DiscreteGenerate(index)
    /\ UNCHANGED <<fminVars, threads>>

NextDomain ==
    \/ CallExhaustiveGenerate
    \/ CallDiscreteGenerate

SpecDomain == DomainInit /\ [][NextDomain]_vars

\* -------------------------------------------- map_to_domain, complexity
\* A value that is in no domain.
Absent == "z"

\* An index counted from 1.
list_index_FromOne(list, val) ==
    LET hits == {i \in 1..Len(list) : list[i] = val} IN
    IF hits = {} THEN None ELSE Some(Min(hits))

\* list.index(val): the Python index of the first element equal to val;
\* None stands for the ValueError it raises when there is none.
list_index(list, val) ==
    LET hits == {i \in 1..Len(list) : list[i] = val} IN
    IF hits = {} THEN None ELSE Some(Min(hits) - 1)

\* DiscreteDomain.map_to_domain / ExhaustiveDomain.map_to_domain (the two
\* bodies are the same): the ValueError becomes None.
map_to_domain(val) ==
    LET found == list_index(domain, val) IN
    /\ ret' = Ret("map_to_domain", "", None, None, <<val>>,
                  IF found = None THEN None ELSE IntId(found[1]))
    /\ UNCHANGED <<dkind, domain, idx, calls, attrs>>

\* The class whose body reads `self.__complexity`.
ClassOf(kind) == IF kind = "discrete" THEN "DiscreteDomain"
                 ELSE "ExhaustiveDomain"

\* 2.0 - (1.0 / n) as the fraction <<numerator, denominator>>.
ComplexityOf(n) == <<2 * n - 1, n>>

\* The property `complexity` of DiscreteDomain and ExhaustiveDomain: the
\* read of `self.__complexity` raises AttributeError when the object has no
\* attribute of the mangled name; otherwise the value is computed once and
\* kept.
complexity ==
    LET name == Mangle(ClassOf(dkind), "__complexity") IN
    IF name \notin DOMAIN attrs
    THEN /\ ret' = Ret("complexity", "AttributeError", None, None, None, None)
         /\ UNCHANGED <<dkind, domain, idx, calls, attrs>>
    ELSE LET memo == IF attrs[name] = None
                     THEN ComplexityOf(Len(domain)) ELSE attrs[name]
         IN  /\ attrs' = [attrs EXCEPT ![name] = memo]
             /\ ret' = Ret("complexity", "", None, None, None, memo)
             /\ UNCHANGED <<dkind, domain, idx, calls>>

CallMapToDomain ==
    /\ \E val \in Values \cup {Absent} : map_to_domain(val)
    /\ UNCHANGED <<searchspaces, trials, did_sort, max_evals, trial_counter,
                   threads>>

CallComplexity ==
    /\ complexity
    /\ UNCHANGED <<searchspaces, trials, did_sort, max_evals, trial_counter,
                   threads>>

\* generate() with the ret of the optimizer's variables left alone.
NextDomainRead ==
    \/ CallExhaustiveGenerate
    \/ CallDiscreteGenerate
    \/ CallMapToDomain
    \/ CallComplexity

SpecDomainRead == DomainInit /\ [][NextDomainRead]_vars

\* ----------------------------------------------- concurrent generate()
\* Two workers call ExhaustiveDomain.generate on the same domain. Nothing in
\* generate() locks the domain, so the interpreter may switch workers
\* between any two attribute accesses: each access of self.idx is a step.
Workers == {1, 2}

\* A worker's call: pc is the next step, index the argument, val the position
\* of the value read at line 124, tmp the cursor loaded at line 125 and out
\* the value returned.
IdleWorker == [pc |-> "idle", index |-> FALSE, val |-> 0, tmp |-> 0,
               out |-> None]

\* Line 124: `val = self.domain[self.idx]`.
GenRead(w, index) ==
    /\ threads[w].pc = "idle"
    /\ threads' = [threads EXCEPT ![w].pc = "load", ![w].index = index,
                                  ![w].val = idx]
    /\ UNCHANGED idx

\* Line 125, right-hand side: `(self.idx + 1) % len(self.domain)`.
GenLoad(w) ==
    /\ threads[w].pc = "load"
    /\ threads' = [threads EXCEPT ![w].pc = "store",
                                  ![w].tmp = Advance(idx, Len(domain))]
    /\ UNCHANGED idx

\* Line 125, the assignment `self.idx = ...`.
GenStore(w) ==
    /\ threads[w].pc = "store"
    /\ idx' = threads[w].tmp
    /\ threads' = [threads EXCEPT ![w].pc = "return"]

\* Line 126: `return val if not index else self.idx`.
GenReturn(w) ==
    /\ threads[w].pc = "return"
    /\ threads' = [threads EXCEPT
                      ![w].pc = "done",
                      ![w].out = IF threads[w].index THEN IntId(idx)
                                 ELSE <<"val", domain[threads[w].val + 1]>>]
    /\ UNCHANGED idx

\* An ExhaustiveDomain whose cursor earlier calls left anywhere, and two
\* workers about to call generate().
ConcDomainInit ==
    /\ dkind = "exhaustive"
    /\ domain \in UNION {[1..n -> Values] : n \in 1..MaxLen}
    /\ idx \in 0..(Len(domain) - 1)
    /\ calls = <<>>
    /\ attrs = DomainAttrs
    /\ threads = [w \in Workers |-> IdleWorker]
    /\ searchspaces = <<>>
    /\ trials = <<>>
    /\ did_sort = FALSE
    /\ max_evals = None
    /\ trial_counter = 0
    /\ ret = NoCall

StepGenRead ==
    /\ \E w \in Workers, index \in BOOLEAN : GenRead(w, index)
    /\ UNCHANGED <<fminVars, dkind, domain, calls, attrs>>

StepGenLoad ==
    /\ \E w \in Workers : GenLoad(w)
    /\ UNCHANGED <<fminVars, dkind, domain, calls, attrs>>

StepGenStore ==
    /\ \E w \in Workers : GenStore(w)
    /\ UNCHANGED <<fminVars, dkind, domain, calls, attrs>>

StepGenReturn ==
    /\ \E w \in Workers : GenReturn(w)
    /\ UNCHANGED <<fminVars, dkind, domain, calls, attrs>>

NextConcDomain ==
    \/ StepGenRead
    \/ StepGenLoad
    \/ StepGenStore
    \/ StepGenReturn

SpecConcDomain == ConcDomainInit /\ [][NextConcDomain]_vars

\* ------------------------------------------ concurrent register_result()
\* Two workers call register_result (single form) on trials of the first
\* SearchSpace. Nothing in register_result locks the space or the trial, so
\* the interpreter may switch workers between any two statements, and
\* between the read and the write of `trial.submissions += 1`.

\* What worker w reports.
Report(w) == IF w = 1 THEN <<Some(1), Some("a"), None>>
             ELSE <<Some(2), Some("b"), None>>

\* A worker's call: pc is the next step, tid the trial id passed, pos and k
\* the positions of the space and trial found, tmp the value computed for
\* submissions, exc the exception raised and out the value returned.
IdleRegistrar == [pc |-> "idle", tid |-> None, pos |-> 0, k |-> 0, tmp |-> 0,
                  exc |-> "", out |-> None]

\* The setters of Trial.objective and Trial.errmsg, one at a time.
SetObjective(trial, objective) ==
    [trial EXCEPT !.objective = objective,
                  !.status = IF objective # None THEN DONE ELSE @]
SetErrmsg(trial, errmsg) ==
    [trial EXCEPT !.errmsg = errmsg,
                  !.status = IF errmsg # None THEN ERROR ELSE @]

\* Lines 160 and 163: the lookups of the space and of the trial.
RegLookup(w, ssid, trial_id) ==
    /\ threads[w].pc = "idle"
    /\ LET found == FindSpaces(searchspaces, ssid)
           pos == Min(found)
           hits == FindTrials(searchspaces[pos], trial_id)
       IN  threads' =
             IF found = {} \/ hits = {}
             THEN [threads EXCEPT ![w].pc = "done", ![w].tid = Some(trial_id),
                                  ![w].exc = "IndexError"]
             ELSE [threads EXCEPT ![w].pc = "objective",
                                  ![w].tid = Some(trial_id),
                                  ![w].pos = pos, ![w].k = Min(hits)]
    /\ UNCHANGED <<searchspaces, trials>>

\* Line 164: `trial.objective = objective`.
RegObjective(w) ==
    /\ threads[w].pc = "objective"
    /\ searchspaces' = [searchspaces EXCEPT
          ![threads[w].pos].trials[threads[w].k] = SetObjective(@, Report(w)[1])]
    /\ threads' = [threads EXCEPT ![w].pc = "results"]
    /\ UNCHANGED trials

\* Line 165: `trial.results = results`.
RegResults(w) ==
    /\ threads[w].pc = "results"
    /\ searchspaces' = [searchspaces EXCEPT
          ![threads[w].pos].trials[threads[w].k].results = Report(w)[2]]
    /\ threads' = [threads EXCEPT ![w].pc = "errmsg"]
    /\ UNCHANGED trials

\* Line 166: `trial.errmsg = errmsg`.
RegErrmsg(w) ==
    /\ threads[w].pc = "errmsg"
    /\ searchspaces' = [searchspaces EXCEPT
          ![threads[w].pos].trials[threads[w].k] = SetErrmsg(@, Report(w)[3])]
    /\ threads' = [threads EXCEPT ![w].pc = "index"]
    /\ UNCHANGED trials

\* Lines 168-169: the trial enters the index if its id is not there.
RegIndex(w) ==
    /\ threads[w].pc = "index"
    /\ LET searchspace == searchspaces[threads[w].pos]
           trial == searchspace.trials[threads[w].k]
       IN  trials' = IF trial.id \in DOMAIN trials THEN trials
                     ELSE (trial.id :> <<searchspace.id, trial.id>>) @@ trials
    /\ threads' = [threads EXCEPT ![w].pc = "load"]
    /\ UNCHANGED searchspaces

\* Line 170, `trial.submissions += 1`: the read and the addition.
RegLoad(w) ==
    /\ threads[w].pc = "load"
    /\ LET trial == searchspaces[threads[w].pos].trials[threads[w].k]
       IN  threads' = [threads EXCEPT ![w].pc = "store",
                                      ![w].tmp = Submit(trial).submissions]
    /\ UNCHANGED <<searchspaces, trials>>

\* Line 170, `trial.submissions += 1`: the write.
RegStore(w) ==
    /\ threads[w].pc = "store"
    /\ searchspaces' = [searchspaces EXCEPT
          ![threads[w].pos].trials[threads[w].k].submissions = threads[w].tmp]
    /\ threads' = [threads EXCEPT ![w].pc = "check"]
    /\ UNCHANGED trials

\* Lines 172-176: the max_evals check of a space of complexity 1.
RegCheck(w) ==
    /\ threads[w].pc = "check"
    /\ LET pos == threads[w].pos
           searchspace == searchspaces[pos]
       IN  IF searchspace.complexity = 1
           THEN IF max_evals = None
                THEN /\ threads' = [threads EXCEPT ![w].pc = "done",
                                                   ![w].exc = "TypeError"]
                     /\ UNCHANGED searchspaces
                ELSE /\ searchspaces' =
                          IF ExceedsMaxEvals(n_done(searchspace), max_evals[1])
                          THEN [searchspaces EXCEPT ![pos].done = TRUE]
                          ELSE searchspaces
                     /\ threads' = [threads EXCEPT ![w].pc = "return"]
           ELSE /\ threads' = [threads EXCEPT ![w].pc = "return"]
                /\ UNCHANGED searchspaces
    /\ UNCHANGED trials

\* Line 195: `return trial.submissions, hyperparameters`.
RegReturn(w) ==
    /\ threads[w].pc = "return"
    /\ LET trial == searchspaces[threads[w].pos].trials[threads[w].k]
       IN  threads' = [threads EXCEPT
                          ![w].pc = "done",
                          ![w].out = <<trial.submissions, hyperparameters(trial)>>]
    /\ UNCHANGED <<searchspaces, trials>>

\* The optimizer after two generate() calls drew trials 0 and 1 from its one
\* SearchSpace, and two workers about to report.
ConcRegInit ==
    /\ \E c \in ComplexityLevels :
          searchspaces = <<[NewSpace(0, c) EXCEPT
                               !.trials = <<NewTrial(0), NewTrial(1)>>]>>
    /\ trials = (IntId(0) :> <<IntId(0), IntId(0)>>)
                   @@ (IntId(1) :> <<IntId(0), IntId(1)>>)
    /\ did_sort = FALSE
    /\ max_evals \in MaxEvalsChoices
    /\ trial_counter = 2
    /\ ret = NoCall
    /\ NoDomain
    /\ threads = [w \in Workers |-> IdleRegistrar]

RegUnchanged == UNCHANGED <<did_sort, max_evals, trial_counter, ret, domainVars>>

StepRegLookup ==
    /\ \E w \in Workers, ssid \in {StrId(0)}, trial_id \in {IntId(n) : n \in 0..2} :
          RegLookup(w, ssid, trial_id)
    /\ RegUnchanged

StepRegObjective == (\E w \in Workers : RegObjective(w)) /\ RegUnchanged

StepRegResults == (\E w \in Workers : RegResults(w)) /\ RegUnchanged

StepRegErrmsg == (\E w \in Workers : RegErrmsg(w)) /\ RegUnchanged

StepRegIndex == (\E w \in Workers : RegIndex(w)) /\ RegUnchanged

StepRegLoad == (\E w \in Workers : RegLoad(w)) /\ RegUnchanged

StepRegStore == (\E w \in Workers : RegStore(w)) /\ RegUnchanged

StepRegCheck == (\E w \in Workers : RegCheck(w)) /\ RegUnchanged

StepRegReturn == (\E w \in Workers : RegReturn(w)) /\ RegUnchanged

NextConcReg ==
    \/ StepRegLookup
    \/ StepRegObjective
    \/ StepRegResults
    \/ StepRegErrmsg
    \/ StepRegIndex
    \/ StepRegLoad
    \/ StepRegStore
    \/ StepRegCheck
    \/ StepRegReturn

SpecConcReg == ConcRegInit /\ [][NextConcReg]_vars

\* ----------------------------------------------------------------- claims
\* The positions of the spaces and trials a register_result call names,
\* comparing ids as strings.
Named(spaces, ssid) == {i \in 1..Len(spaces) : str(spaces[i].id) = str(ssid)}
NamedTrials(searchspace, tids) ==
    {k \in 1..Len(searchspace.trials) :
        \E t \in tids : str(searchspace.trials[k].id) = str(t)}

\* The position in the list `spaces` of the space with this id.
PosOf(spaces, id) == CHOOSE i \in 1..Len(spaces) : spaces[i].id = id

Returned == ret.exc = ""
Returned1 == ret'.exc = ""

\* C1: a generate() with no ssid never returns a trial drawn from a
\* SearchSpace whose done flag is set, and a done SearchSpace gains no trial
\* in any step, whichever index the random choice picked.
C1_NeverFromDone ==
    [][\A i \in 1..Len(searchspaces) :
          searchspaces[i].done =>
             LET j == PosOf(searchspaces', searchspaces[i].id) IN
             /\ Len(searchspaces'[j].trials) = Len(searchspaces[i].trials)
             /\ (ret'.op = "generate" /\ ret'.ssid = None /\ Returned1)
                   => ret'.val[1] # searchspaces[i].id]_vars

\* C1 witness: the random choice picked a done space and the scan moved on
\* to return a trial from a later space.
C1_Witness ==
    /\ ret.op = "generate" /\ ret.ssid = None /\ Returned
    /\ searchspaces[ret.args[1] + 1].done
    /\ ret.val[2] \in DOMAIN trials

C3_BySsid ==
    (ret.op = "generate" /\ ret.ssid # None) =>
        LET found == {i \in 1..Len(searchspaces) :
                         searchspaces[i].id = ret.ssid[1]}
        IN  IF found # {} /\ \A i \in found : ~searchspaces[i].done
            THEN Returned /\ ret.val # None /\ ret.val[1] = ret.ssid[1]
            ELSE ret.exc \in {"IndexError", "KeyError"}

\* C4: every successful single-id register_result call on a trial raises
\* that trial's submissions by exactly one, returns the new count and
\* leaves objective and results equal to the call's arguments; every other
\* call that returns leaves the trial's submissions, objective and results
\* as they were. So after n such calls submissions is the initial value
\* plus n and objective/results are those of the latest call.
C4_Submissions ==
    [][\A i \in 1..Len(searchspaces) :
       \A k \in 1..Len(searchspaces[i].trials) :
          LET old == searchspaces[i].trials[k]
              new == searchspaces'[i].trials[k]
              hit == /\ ret'.op = "register_result"
                     /\ i \in Named(searchspaces, ret'.ssid[1])
                     /\ k \in NamedTrials(searchspaces[i], {ret'.tid[1]})
          IN  Returned1 =>
                 IF hit
                 THEN /\ new.submissions = old.submissions + 1
                      /\ ret'.val[1] = new.submissions
                      /\ new.objective = ret'.args[1]
                      /\ new.results = ret'.args[2]
                 ELSE /\ new.submissions = old.submissions
                      /\ new.objective = old.objective
                      /\ new.results = old.results]_vars

\* C4 witness: a second registration of a trial has overwritten the
\* objective of the first.
C4_Witness ==
    /\ ret.op = "register_result" /\ Returned
    /\ ret.val[1] = 2
    /\ ret.args[1] = Some(2)
    /\ \E i \in 1..Len(searchspaces) : \E k \in 1..Len(searchspaces[i].trials) :
          /\ searchspaces[i].trials[k].submissions = 2
          /\ searchspaces[i].trials[k].objective = Some(2)
          /\ searchspaces[i].trials[k].results = Some("b")

\* C5: for a space of complexity 1 under max_evals = m, the step that takes
\* the number of status-3 trials above m sets done; done is not set while
\* that number has not exceeded m; and once done is set it stays set, the
\* space gains no trial and no generate() returns a trial from it.
C5_MaxEvals ==
    [][max_evals # None =>
       \A i \in 1..Len(searchspaces) :
          LET before == searchspaces[i]
              after == searchspaces'[i]
              m == max_evals[1]
          IN  before.complexity = 1 =>
                /\ (n_done(before) <= m /\ n_done(after) > m) => after.done
                /\ (~before.done /\ n_done(after) <= m) => ~after.done
                /\ before.done =>
                      /\ after.done
                      /\ Len(after.trials) = Len(before.trials)
                      /\ (ret'.op = "generate" /\ Returned1)
                            => ret'.val[1] # before.id]_vars

\* C5 witness: a space of complexity 1 holds more than max_evals status-3
\* trials, is done, and the generate() after that returned a trial from
\* another space.
C5_Witness ==
    /\ max_evals # None
    /\ ret.op = "generate" /\ Returned
    /\ \E i \in 1..Len(searchspaces) :
          /\ searchspaces[i].complexity = 1
          /\ searchspaces[i].done
          /\ n_done(searchspaces[i]) > max_evals[1]
          /\ ret.val[1] # searchspaces[i].id

\* The trial ids of a register_result call: the one id of the single form,
\* the list's elements of the batch form.
TidsOf(r) == IF r.op = "register_batch" THEN Range(r.tid[1]) ELSE {r.tid[1]}

\* What C6 asks of one step: a register_result call that did not raise the
\* lookup error named a space and trials that exist (ids compared as
\* strings), and it changed no other space and no other trial.
LookupStep ==
    ret'.op \in {"register_result", "register_batch"} =>
       IF ret'.exc = "IndexError"
       THEN ret'.val = None
       ELSE /\ Named(searchspaces, ret'.ssid[1]) # {}
            /\ \A i \in Named(searchspaces, ret'.ssid[1]) :
                  \A t \in TidsOf(ret') :
                     NamedTrials(searchspaces[i], {t}) # {}
            /\ \A i \in 1..Len(searchspaces) :
               \A k \in 1..Len(searchspaces[i].trials) :
                  searchspaces'[i].trials[k] # searchspaces[i].trials[k]
                     => /\ i \in Named(searchspaces, ret'.ssid[1])
                        /\ k \in NamedTrials(searchspaces[i], TidsOf(ret'))
            /\ \A i \in 1..Len(searchspaces) :
                  searchspaces'[i].done # searchspaces[i].done
                     => i \in Named(searchspaces, ret'.ssid[1])

\* C6: register_result, single or batch, fails with a lookup error whenever
\* ssid matches no space's id or a given trial id matches no trial of that
\* space, and never succeeds against a space or trial other than the ones
\* named.
C6_Lookup == [][LookupStep]_vars

\* C6 with a numeric max_evals, where no call raises TypeError: the lookup
\* error is raised for every unknown id.
C6_LookupCapped == [][max_evals # None => LookupStep]_vars

\* ---------------------------------------------------------- domain claims
\* The values and indices the calls returned.
IsExhaustive == dkind = "exhaustive"

\* C7: for an ExhaustiveDomain over n values, n consecutive generate() calls
\* that start at cursor 0 select the positions 0, 1, ..., n-1 in this order,
\* each value-returning call among them returns the element at its position,
\* and the cursor is back at 0 after the n-th call.
C7_RoundRobin ==
    IsExhaustive =>
       LET n == Len(domain) IN
       \A p \in 1..Len(calls) :
          (calls[p].cursor = 0 /\ p + n - 1 <= Len(calls)) =>
             /\ \A j \in 0..(n - 1) :
                   /\ calls[p + j].cursor = j
                   /\ ~calls[p + j].index
                         => calls[p + j].out = <<"val", domain[j + 1]>>
             /\ IF p + n <= Len(calls) THEN calls[p + n].cursor = 0
                ELSE idx = 0

\* C7 witness: a domain of three values has been generated from three
\* times, cursor back at the start.
C7_Witness ==
    /\ IsExhaustive
    /\ Len(domain) = 3
    /\ Len(calls) = 3
    /\ \A p \in 1..3 : ~calls[p].index /\ calls[p].out = <<"val", domain[p]>>
    /\ idx = 0

\* C8: generate(index=True) of a Discrete or Exhaustive domain returns an
\* integer i with 0 <= i < len(domain), and the ExhaustiveDomain cursor
\* satisfies 0 <= idx < len(domain).
C8_IndexInRange ==
    /\ \A p \in 1..Len(calls) :
          calls[p].index =>
             /\ calls[p].out[1] = "int"
             /\ calls[p].out[2] \in 0..(Len(domain) - 1)
    /\ IsExhaustive => idx \in 0..(Len(domain) - 1)

\* C8 witness: the cursor of a domain of two or more values has wrapped
\* around on a generate(index=True).
C8_Witness ==
    /\ IsExhaustive
    /\ Len(domain) >= 2
    /\ Len(calls) >= Len(domain)
    /\ calls[Len(calls)].index
    /\ calls[Len(calls)].out = IntId(0)

\* C9: generate(index=True) returns the positional index of the value that
\* generate(index=False) returns from the same state: for an
\* ExhaustiveDomain with the cursor at k it returns k.
C9_IndexOfValue ==
    \A p \in 1..Len(calls) :
       calls[p].index => calls[p].out = IntId(calls[p].drew)

\* ------------------------------------------------------ ranking claims
\* No two spaces of the list have the same complexity: np.argsort has one
\* result.
NoTies ==
    \A i, j \in 1..Len(searchspaces) :
       searchspaces[i].complexity = searchspaces[j].complexity => i = j

\* C10: after sort_spaces(use_complexity=True, use_uncertainty=False) the
\* list is ordered by complexity: a space of strictly lower complexity
\* comes before, and has a strictly lower rank than, one of higher
\* complexity. Stated for the lists without ties, where the outcome does
\* not depend on how argsort orders equal values.
C10_SortedByComplexity ==
    (ret.op = "sort_spaces" /\ ret.args = <<TRUE, FALSE>> /\ NoTies) =>
       \A i, j \in 1..Len(searchspaces) :
          searchspaces[i].complexity < searchspaces[j].complexity
             => /\ i < j
                /\ searchspaces[i].rank < searchspaces[j].rank

\* The 0-based position of the space at list position i in the ordering of
\* all spaces by complexity (no ties): the number of spaces below it.
OwnPosition(spaces, i) ==
    Cardinality({j \in 1..Len(spaces) :
                    spaces[j].complexity < spaces[i].complexity})

\* C11: sort_spaces resets every rank to 1 and multiplies it by the space's
\* own position in the ordering by each enabled criterion: with complexity
\* as the only criterion a space's final rank is its position in the
\* ordering by complexity (counted from 0 or from 1), whatever ranks and
\* list order earlier calls left.
C11_RankIsOwnPosition ==
    (ret.op = "sort_spaces" /\ ret.args = <<TRUE, FALSE>> /\ NoTies) =>
       \E base \in {0, 1} :
          \A i \in 1..Len(searchspaces) :
             searchspaces[i].rank = OwnPosition(searchspaces, i) + base

\* ------------------------------------------------------ concurrency claims
\* C12: when two workers run generate() concurrently on the same
\* ExhaustiveDomain, whatever the interleaving, the two calls select two
\* consecutive positions p and p + 1 (mod len) and leave the cursor at
\* p + 2 (mod len), as a serial order of the two calls does.
C12_CursorNotCorrupted ==
    (dkind = "exhaustive" /\ threads # <<>>
        /\ \A w \in Workers : threads[w].pc = "done") =>
       LET n == Len(domain) IN
       \E p \in 0..(n - 1) :
          /\ {threads[w].val : w \in Workers} = {p, (p + 1) % n}
          /\ idx = (p + 2) % n

\* Both workers' register_result calls have returned.
BothRegistered ==
    /\ threads # <<>>
    /\ dkind = "none"
    /\ \A w \in Workers : threads[w].pc = "done" /\ threads[w].exc = ""

\* The trial worker w registered against.
TrialOf(w) == searchspaces[threads[w].pos].trials[threads[w].k]

\* C13: when two workers run register_result concurrently, whatever the
\* interleaving, no result is lost: on different trials each trial ends
\* with its own worker's objective and results and one submission more; on
\* the same trial submissions ends two higher and the stored objective and
\* results are those of one of the two calls.
C13_NoLostResult ==
    BothRegistered =>
       IF threads[1].k # threads[2].k
       THEN \A w \in Workers :
               /\ TrialOf(w).objective = Report(w)[1]
               /\ TrialOf(w).results = Report(w)[2]
               /\ TrialOf(w).submissions = 1
       ELSE /\ TrialOf(1).submissions = 2
            /\ \E w \in Workers :
                  /\ TrialOf(1).objective = Report(w)[1]
                  /\ TrialOf(1).results = Report(w)[2]

\* The part of C13 about different trials of the same SearchSpace.
C13_DifferentTrials ==
    (BothRegistered /\ threads[1].k # threads[2].k) =>
       \A w \in Workers :
          /\ TrialOf(w).objective = Report(w)[1]
          /\ TrialOf(w).results = Report(w)[2]
          /\ TrialOf(w).submissions = 1

\* --------------------------------------------------------- optimum claims
\* The terminal-success trials of all spaces.
Completed ==
    {t \in UNION {Range(searchspaces[i].trials) : i \in 1..Len(searchspaces)} :
        t.status = DONE}

\* C14: optimum() never raises; it returns the trial with the lowest
\* objective among the terminal-success trials of all spaces, also when some
\* spaces have none, and returns None when no space has one.
C14_Optimum ==
    ret.op = "optimum" =>
       /\ Returned
       /\ IF Completed = {} THEN ret.val = None
          ELSE /\ ret.val # None
               /\ \E t \in Completed :
                     /\ t.id = ret.val[1]
                     /\ \A u \in Completed : t.objective[1] <= u.objective[1]

\* optimum() on an optimizer with no completed trial at all returns None.
C14_NoResult ==
    (ret.op = "optimum" /\ Completed = {}) => (Returned /\ ret.val = None)

\* ----------------------------------------------------- domain read claims
\* The values of the domain are distinct.
Distinct == \A i, j \in 1..Len(domain) : domain[i] = domain[j] => i = j

C15_AbsentSeen ==
    /\ ret.op = "map_to_domain"
    /\ \A i \in 1..Len(domain) : domain[i] # ret.args[1]
    /\ ret.val = None

\* C16: reading `complexity` on a Discrete or Exhaustive domain succeeds and
\* yields 2 - 1/len(domain), whatever generate() calls came before.
C16_Complexity ==
    ret.op = "complexity" =>
       /\ Returned
       /\ ret.val = <<2 * Len(domain) - 1, Len(domain)>>

\* ------------------------------------------------------------ batch claims
\* The single-id calls register_result(ssid, ids[i], objective[i],
\* results[i], errmsg) made one after the other from element i on, each
\* starting from the state the one before left.
RECURSIVE SinglesFrom(_, _, _, _, _, _, _)
SinglesFrom(st, pos, ids, args, errmsg, me, i) ==
    IF i > Len(ids) THEN st
    ELSE SinglesFrom(
            [register_one(st, pos, ids[i], args[i][1], args[i][2], errmsg, me)
                EXCEPT !.exc = ""],
            pos, ids, args, errmsg, me, i + 1)

\* What C17 asks of a batch call that named known ids, under a numeric
\* max_evals: it returns, leaves the spaces and the index as the single-id
\* calls do, and returns the hyperparameters of its trials in list order.
BatchAsSingles ==
    LET ids == ret'.tid[1]
        end == SinglesFrom(StartState, Min(FindSpaces(searchspaces, ret'.ssid[1])),
                           ids, ret'.args[1], ret'.args[2], max_evals, 1)
    IN  /\ Returned1
        /\ searchspaces' = end.spaces
        /\ trials' = end.index
        /\ ret'.val[2] = [i \in 1..Len(ids) |-> <<"hp", ids[i][2]>>]

\* C17: a batch register_result call leaves the optimizer in the state the
\* single-id calls made element by element leave it in, and returns the
\* list of the trials' hyperparameters in the same order, for every list
\* length, the empty list included.
C17_BatchAsSingles ==
    [][(ret'.op = "register_batch" /\ ret'.exc # "IndexError"
           /\ max_evals # None) => BatchAsSingles]_vars

\* C17 for the lists of one or more ids.
C17_NonEmpty ==
    [][(ret'.op = "register_batch" /\ ret'.exc # "IndexError"
           /\ max_evals # None /\ Len(ret'.tid[1]) > 0) => BatchAsSingles]_vars

\* C18: a register_result call that fails with the lookup error, in single
\* or batch form, leaves the optimizer state unchanged: a batch whose list
\* holds an unknown trial id at any position has modified no objective,
\* results, errmsg or submissions of the trials before it, no done flag and
\* no entry of the index.
C18_FailureLeavesState ==
    [][(ret'.op \in {"register_result", "register_batch"}
           /\ ret'.exc = "IndexError") =>
          /\ searchspaces' = searchspaces
          /\ trials' = trials]_vars

\* C19: with max_evals left at None, a register_result call on a trial of a
\* SearchSpace of complexity 1 completes normally: it returns the submission
\* count and the hyperparameters, and no SearchSpace is ever marked done.
C19_NoMaxEvals ==
    max_evals = None =>
       /\ \A i \in 1..Len(searchspaces) : ~searchspaces[i].done
       /\ (ret.op = "register_result" /\ ret.exc # "IndexError") =>
             /\ Returned
             /\ ret.val # None

\* ------------------------------------------------------------ index claims
\* The trials of all spaces: each was returned by a generate() call.
AllTrials(spaces) ==
    UNION {{<<spaces[i].id, spaces[i].trials[k].id>> :
               k \in 1..Len(spaces[i].trials)} : i \in 1..Len(spaces)}

\* The index maps each id to the trial carrying that id, and holds exactly
\* the trials that generate() returned.
IndexExact(spaces, index) ==
    /\ \A id \in DOMAIN index : index[id][2] = id /\ index[id] \in AllTrials(spaces)
    /\ \A t \in AllTrials(spaces) : t[2] \in DOMAIN index /\ index[t[2]] = t

\* C20: after any sequence of generate, register_result and sort_spaces
\* calls the index maps each id to exactly the trial carrying that id, no
\* entry is removed or replaced by another trial, and trial_count is the
\* number of distinct trials returned by generate() or registered against:
\* it grows by one with every trial a generate() returns and is left
\* unchanged by a generate() that returns no trial, by a registration and by
\* sort_spaces.
C20_TrialIndex ==
    [][/\ IndexExact(searchspaces', trials')
       /\ \A id \in DOMAIN trials : id \in DOMAIN trials' /\ trials'[id] = trials[id]
       /\ Cardinality(DOMAIN trials') = Cardinality(AllTrials(searchspaces'))
       /\ Cardinality(DOMAIN trials') =
             IF ret'.op = "generate" /\ Returned1 /\ ret'.val # None
             THEN Cardinality(DOMAIN trials) + 1
             ELSE Cardinality(DOMAIN trials)]_vars

\* C20 witness: two trials are indexed, one of them registered twice, after
\* the spaces were re-ordered by a sort.
C20_Witness ==
    /\ trial_count = 2
    /\ did_sort
    /\ searchspaces[1].id = IntId(1)
    /\ ret.op = "register_result" /\ Returned
    /\ ret.val[1] = 2

====
